---- MODULE Spec2Model ----
(***************************************************************************)
(* Selective tool filtering for FastMCP                                    *)
(* (src/src/fastmcp/contrib/selective_tools/selective_tools.py).            *)
(*                                                                         *)
(* A Python str is modelled as a sequence of one-character strings, so     *)
(* that splitting, stripping, regular-expression matching, sorting and     *)
(* joining are computed character by character as the code computes them.  *)
(* A character the TLA+ string syntax has no plain form for is written as *)
(* the string "U+xxxx" of its code point.                                  *)
(***************************************************************************)
EXTENDS Integers, Sequences, FiniteSets, TLC

\* ------------------------------------------------------------------------
\* Bounds of the model.
\* ------------------------------------------------------------------------

\* Longest path segment handed to parse_tool_names.
MaxLen ==
  4

\* Longest tool list the downstream handler returns.
MaxTools ==
  3

\* Number of request contexts that exist side by side.
NumRequests ==
  2

\* ------------------------------------------------------------------------
\* Characters and text.
\* ------------------------------------------------------------------------

\* The printable ASCII characters, code points 32..126, in code point order.
AsciiPrintable ==
  <<" ","!","U+0022","#","$","%","&","'","(",")","*","+",",","-",".","/","0","1","2","3",
    "4","5","6","7","8","9",":",";","<","=",">","?","@","A","B","C","D","E","F","G","H",
    "I","J","K","L","M","N","O","P","Q","R","S","T","U","V","W","X","Y","Z","[","U+005C",
    "]","^","_","U+0060","a","b","c","d","e","f","g","h","i","j","k","l","m","n","o","p","q",
    "r","s","t","u","v","w","x","y","z","{","|","}","~">>

\* ord(c) for a printable ASCII character.
CodePoint(c) ==
  31 + (CHOOSE i \in 1..Len(AsciiPrintable) : AsciiPrintable[i] = c)

\* [a-zA-Z]
Letters ==
  {AsciiPrintable[i] : i \in (34..59) \cup (66..91)}

\* [0-9]
Digits ==
  {AsciiPrintable[i] : i \in 17..26}

\* The characters str.strip() removes (ASCII whitespace).
Whitespace ==
  {" ", "\t", "\n", "\r", "\f"}

\* Fault variant of Separators: the pattern splits on "/" alone.
Separators_SlashOnly ==
  {"/"}

\* The character class [/,] of the split pattern.
Separators ==
  {"/", ","}

\* Python's str < str: lexicographic by code point, a proper prefix first.
StrLess(a, b) ==
  \E k \in 1..(Len(b)) :
    /\ k <= Len(a) + 1
    /\ \A j \in 1..(k - 1) : a[j] = b[j]
    /\ \/ k = Len(a) + 1
       \/ (k <= Len(a) /\ CodePoint(a[k]) < CodePoint(b[k]))

\* sorted(names) for a set of str.
RECURSIVE SortedNames(_)
SortedNames(names) ==
  IF names = {} THEN <<>>
  ELSE LET least == CHOOSE n \in names : \A m \in names \ {n} : StrLess(n, m)
       IN  <<least>> \o SortedNames(names \ {least})

\* sep.join(parts)
RECURSIVE Join(_, _)
Join(sep, parts) ==
  IF parts = <<>> THEN <<>>
  ELSE IF Len(parts) = 1 THEN parts[1]
  ELSE parts[1] \o sep \o Join(sep, Tail(parts))

CommaSpace ==
  <<","," ">>

\* ------------------------------------------------------------------------
\* parse_tool_names
\* ------------------------------------------------------------------------

\* s.strip()
RECURSIVE Strip(_)
Strip(s) ==
  IF s = <<>> THEN <<>>
  ELSE IF s[1] \in Whitespace THEN Strip(Tail(s))
  ELSE IF s[Len(s)] \in Whitespace THEN Strip(SubSeq(s, 1, Len(s) - 1))
  ELSE s

\* The index of the first character at or after i that is no separator
\* (Len(s) + 1 when there is none): the end of one match of [/,]+.
RECURSIVE SkipSeparators(_, _)
SkipSeparators(s, i) ==
  IF i <= Len(s) /\ s[i] \in Separators THEN SkipSeparators(s, i + 1) ELSE i

\* re.split(r"[/,]+", s), scanning from index i with the current piece cur
\* and the pieces acc already cut.
RECURSIVE SplitFrom(_, _, _, _)
SplitFrom(s, i, cur, acc) ==
  IF i > Len(s) THEN Append(acc, cur)
  ELSE IF s[i] \in Separators
       THEN SplitFrom(s, SkipSeparators(s, i), <<>>, Append(acc, cur))
       ELSE SplitFrom(s, i + 1, Append(cur, s[i]), acc)

ReSplit(s) ==
  SplitFrom(s, 1, <<>>, <<>>)

\* [name.strip() for name in tool_names if name.strip()]
RECURSIVE CleanNames(_)
CleanNames(pieces) ==
  IF pieces = <<>> THEN <<>>
  ELSE LET name == Strip(pieces[1])
       IN  IF name # <<>> THEN <<name>> \o CleanNames(Tail(pieces))
           ELSE CleanNames(Tail(pieces))

\* re.match(r"^[a-zA-Z_][a-zA-Z0-9_]*$", name) is not None.  "$" also
\* matches just before a newline that ends the string.
ReMatchName(name) ==
  LET body == IF name # <<>> /\ name[Len(name)] = "\n"
              THEN SubSeq(name, 1, Len(name) - 1) ELSE name
      MatchesAll(s) ==
        /\ s # <<>>
        /\ s[1] \in Letters \cup {"_"}
        /\ \A i \in 2..Len(s) : s[i] \in Letters \cup Digits \cup {"_"}
  IN  MatchesAll(name) \/ MatchesAll(body)

InvalidNamePrefix ==
  <<"I","n","v","a","l","i","d"," ","t","o","o","l"," ","n","a","m","e",":"," ","'">>

InvalidNameSuffix ==
  <<"'","."," ","T","o","o","l"," ","n","a","m","e","s"," ","m","u","s","t"," ","s","t",
    "a","r","t"," ","w","i","t","h"," ","a"," ","l","e","t","t","e","r"," ","o","r"," ",
    "u","n","d","e","r","s","c","o","r","e"," ","a","n","d"," ","c","o","n","t","a","i",
    "n"," ","o","n","l","y"," ","a","l","p","h","a","n","u","m","e","r","i","c"," ","c",
    "h","a","r","a","c","t","e","r","s"," ","a","n","d"," ","u","n","d","e","r","s","c",
    "o","r","e","s",".">>

\* Python's None.
None ==
  [kind |-> "None"]

\* A set[str] value.
SetOf(names) ==
  [kind |-> "set", value |-> names]

\* ValueError(message) raised by parse_tool_names for the segment name.
ValueError(name) ==
  [kind |-> "ValueError", name |-> name,
   message |-> InvalidNamePrefix \o name \o InvalidNameSuffix]

\* Fault variant of ValidateNames: a name the pattern rejects is left out
\* of the result and nothing is raised.
ValidateNames_DropsInvalid(tool_names) ==
  SetOf({tool_names[i] : i \in {j \in 1..Len(tool_names) : ReMatchName(tool_names[j])}})

\* The validation loop: the first name the pattern rejects raises.
ValidateNames(tool_names) ==
  LET bad == {i \in 1..Len(tool_names) : ~ReMatchName(tool_names[i])}
  IN  IF bad # {}
      THEN ValueError(tool_names[CHOOSE i \in bad : \A j \in bad : i <= j])
      ELSE SetOf({tool_names[i] : i \in 1..Len(tool_names)})

\* Fault variant of parse_tool_names: the "if not tool_names: return None"
\* test is missing.
parse_tool_names_NoEmptyCheck(path_segment) ==
  IF path_segment = <<>> \/ Strip(path_segment) = <<>> THEN None
  ELSE ValidateNames(CleanNames(ReSplit(path_segment)))

parse_tool_names(path_segment) ==
  IF path_segment = <<>> \/ Strip(path_segment) = <<>> THEN None
  ELSE LET tool_names == CleanNames(ReSplit(path_segment))
       IN  IF tool_names = <<>> THEN None
           ELSE ValidateNames(tool_names)

\* ------------------------------------------------------------------------
\* Tools and the outcome of a call.
\* ------------------------------------------------------------------------

\* ErrorBehavior
IGNORE ==
  "ignore"

STRICT ==
  "strict"

WARN ==
  "warn"

FALLBACK ==
  "fallback"

ErrorBehavior ==
  {IGNORE, STRICT, WARN, FALLBACK}

\* A Tool, as far as filtering reads it: its key and its description.
Tool(key, description) ==
  [key |-> key, description |-> description]

\* A tool of the server's registry.
RegisteredTool(key) ==
  Tool(key, <<>>)

\* The handler returned this list.
Return(list) ==
  [kind |-> "list", tools |-> list]

\* The handler raised NotFoundError(message).
NotFoundError(message) ==
  [kind |-> "NotFoundError", message |-> message]

\* No outcome yet.
Pending ==
  [kind |-> "pending"]

\* A key that a dict does not hold.
Unset ==
  [kind |-> "unset"]

\* ------------------------------------------------------------------------
\* SelectiveToolMiddleware
\* ------------------------------------------------------------------------

NoticeName ==
  <<"_","s","e","l","e","c","t","i","o","n","_","e","r","r","o","r","_","n","o","t","i",
    "c","e">>

NoticePrefix ==
  <<"U+26A0","U+FE0F"," ","E","R","R","O","R"," ","N","O","T","I","C","E",":"," ","R",
    "e","q","u","e","s","t","e","d"," ","t","o","o","l","s"," ","n","o","t"," ","f","o",
    "u","n","d",":"," ">>

NoticeSuffix ==
  <<"."," ","C","a","l","l"," ","t","h","i","s"," ","t","o","o","l"," ","t","o"," ","s",
    "e","e"," ","t","h","e"," ","f","u","l","l"," ","e","r","r","o","r"," ","m","e","s",
    "s","a","g","e",".">>

StrictPrefix ==
  <<"R","e","q","u","e","s","t","e","d"," ","t","o","o","l","s"," ","n","o","t"," ","f",
    "o","u","n","d",":"," ">>

StrictMiddle ==
  <<"."," ","A","v","a","i","l","a","b","l","e"," ","t","o","o","l","s",":"," ">>

\* Fault variant of _create_error_notice_tool: the description lists the
\* available names where the unavailable ones belong.
_create_error_notice_tool_ListsAvailable(invalid_tools, available_tools) ==
  Tool(NoticeName,
       NoticePrefix \o Join(CommaSpace, SortedNames(available_tools)) \o NoticeSuffix)

\* Tool.from_function(error_notice, name=..., description=...)
_create_error_notice_tool(invalid_tools, available_tools) ==
  Tool(NoticeName,
       NoticePrefix \o Join(CommaSpace, SortedNames(invalid_tools)) \o NoticeSuffix)

\* Fault variant of NotFoundMessage: the names are listed in descending
\* order, as if sorted() had been given reverse=True.
NotFoundMessage_Descending(invalid_tools, available_tools) ==
  LET Descending(names) ==
        LET up == SortedNames(names)
        IN  [i \in 1..Len(up) |-> up[Len(up) + 1 - i]]
  IN  StrictPrefix \o Join(CommaSpace, Descending(invalid_tools))
        \o StrictMiddle \o Join(CommaSpace, Descending(available_tools))

\* The message of the NotFoundError the STRICT branch raises.
NotFoundMessage(invalid_tools, available_tools) ==
  StrictPrefix \o Join(CommaSpace, SortedNames(invalid_tools))
    \o StrictMiddle \o Join(CommaSpace, SortedNames(available_tools))

\* [t for t in tools if t.key in names]
RECURSIVE KeepKeys(_, _)
KeepKeys(tls, names) ==
  IF tls = <<>> THEN <<>>
  ELSE IF tls[1].key \in names THEN <<tls[1]>> \o KeepKeys(Tail(tls), names)
  ELSE KeepKeys(Tail(tls), names)

\* {t.key for t in tools}
AvailableTools(tls) ==
  {tls[i].key : i \in 1..Len(tls)}

\* Fault variant of HandleInvalid: IGNORE returns the whole list.
HandleInvalid_IgnoreKeepsAll(behavior, tls, valid_tools, invalid_tools, available_tools) ==
  CASE behavior = IGNORE   -> Return(tls)
    [] behavior = STRICT   -> NotFoundError(NotFoundMessage(invalid_tools, available_tools))
    [] behavior = WARN     ->
         Return(Append(KeepKeys(tls, valid_tools),
                       _create_error_notice_tool(invalid_tools, available_tools)))
    [] behavior = FALLBACK -> Return(tls)
    [] OTHER               -> Return(tls)

\* Fault variant of HandleInvalid: FALLBACK returns only the valid tools.
HandleInvalid_FallbackFilters(behavior, tls, valid_tools, invalid_tools, available_tools) ==
  CASE behavior = IGNORE   -> Return(KeepKeys(tls, valid_tools))
    [] behavior = STRICT   -> NotFoundError(NotFoundMessage(invalid_tools, available_tools))
    [] behavior = WARN     ->
         Return(Append(KeepKeys(tls, valid_tools),
                       _create_error_notice_tool(invalid_tools, available_tools)))
    [] behavior = FALLBACK -> Return(KeepKeys(tls, valid_tools))
    [] OTHER               -> Return(tls)

\* Fault variant of HandleInvalid: WARN raises when no selected tool is
\* available.
HandleInvalid_WarnRaises(behavior, tls, valid_tools, invalid_tools, available_tools) ==
  CASE behavior = IGNORE   -> Return(KeepKeys(tls, valid_tools))
    [] behavior = STRICT   -> NotFoundError(NotFoundMessage(invalid_tools, available_tools))
    [] behavior = WARN     ->
         IF valid_tools = {}
         THEN NotFoundError(NotFoundMessage(invalid_tools, available_tools))
         ELSE Return(Append(KeepKeys(tls, valid_tools),
                            _create_error_notice_tool(invalid_tools, available_tools)))
    [] behavior = FALLBACK -> Return(tls)
    [] OTHER               -> Return(tls)

\* Fault variant of HandleInvalid: WARN puts the notice tool first.
HandleInvalid_NoticeFirst(behavior, tls, valid_tools, invalid_tools, available_tools) ==
  CASE behavior = IGNORE   -> Return(KeepKeys(tls, valid_tools))
    [] behavior = STRICT   -> NotFoundError(NotFoundMessage(invalid_tools, available_tools))
    [] behavior = WARN     ->
         Return(<<_create_error_notice_tool(invalid_tools, available_tools)>>
                  \o KeepKeys(tls, valid_tools))
    [] behavior = FALLBACK -> Return(tls)
    [] OTHER               -> Return(tls)

\* The branch on self.error_behavior, taken when some requested tool is
\* not available.
HandleInvalid(behavior, tls, valid_tools, invalid_tools, available_tools) ==
  CASE behavior = IGNORE   -> Return(KeepKeys(tls, valid_tools))
    [] behavior = STRICT   -> NotFoundError(NotFoundMessage(invalid_tools, available_tools))
    [] behavior = WARN     ->
         Return(Append(KeepKeys(tls, valid_tools),
                       _create_error_notice_tool(invalid_tools, available_tools)))
    [] behavior = FALLBACK -> Return(tls)
    [] OTHER               -> Return(tls)

\* Fault variant of FilterSelected: the "all requested tools exist" return
\* is missing, so the error behavior is applied to every selection.
FilterSelected_NoShortcut(behavior, selected, tls) ==
  LET available_tools == AvailableTools(tls)
      valid_tools     == selected \cap available_tools
      invalid_tools   == selected \ available_tools
  IN  HandleInvalid(behavior, tls, valid_tools, invalid_tools, available_tools)

\* on_list_tools from the selection read out of the context onwards.
FilterSelected(behavior, selected, tls) ==
  LET available_tools == AvailableTools(tls)
      valid_tools     == selected \cap available_tools
      invalid_tools   == selected \ available_tools
  IN  IF invalid_tools = {} THEN Return(KeepKeys(tls, selected))
      ELSE HandleInvalid(behavior, tls, valid_tools, invalid_tools, available_tools)

\* Fault variant of on_list_tools: an unset slot is read as the empty set.
on_list_tools_AbsentAsEmpty(behavior, ctx, slot, tls) ==
  IF ~ctx THEN Return(tls)
  ELSE FilterSelected(behavior, IF slot = None THEN {} ELSE slot.value, tls)

\* Fault variant of on_list_tools: "if not selected_tools" in place of
\* "if selected_tools is None", so an empty set counts as no selection.
on_list_tools_Truthiness(behavior, ctx, slot, tls) ==
  IF ~ctx THEN Return(tls)
  ELSE IF slot = None \/ slot.value = {} THEN Return(tls)
  ELSE FilterSelected(behavior, slot.value, tls)

\* on_list_tools after "tools = await call_next(context)": ctx tells whether
\* context.fastmcp_context is set, slot is the "selected_tools" state.
on_list_tools(behavior, ctx, slot, tls) ==
  IF ~ctx THEN Return(tls)
  ELSE IF slot = None THEN Return(tls)
  ELSE FilterSelected(behavior, slot.value, tls)

\* ------------------------------------------------------------------------
\* The state machine.
\* ------------------------------------------------------------------------

VARIABLES
  error_behavior,   \* SelectiveToolMiddleware.error_behavior
  downstream,       \* the tool list the downstream handler holds and returns
  has_context,      \* per request: context.fastmcp_context is not None
  selected_tools,   \* per request: the "selected_tools" state of its context
  pc,               \* per request: "idle", "start", "awaiting" or "done"
  tools,            \* per request: the local tools of on_list_tools
  result,           \* per request: what on_list_tools returned or raised
  path_segment,     \* the argument of a parse_tool_names call
  parsed,           \* what that call returned or raised
  call,             \* per request: the outcome of its last tools/call
  url_path,         \* per request: scope["path"] of the HTTP request
  scope_state,      \* per request: scope["state"]["selected_tools"]
  response          \* per request: what the routing layer answered or raised

vars ==
  <<error_behavior, downstream, has_context, selected_tools, pc, tools, result,
    path_segment, parsed, call, url_path, scope_state, response>>

\* The variables of the HTTP routing layer.
routing ==
  <<url_path, scope_state, response>>

Requests ==
  1..NumRequests

\* The request followed when one request is looked at on its own.
Solo ==
  {1}

\* Keys of the tools a server may have registered.
ToolKeys ==
  {<<"b">>, <<"a">>, NoticeName}

\* Names a selection may hold: registered keys and names of no tool.
SelectionNames ==
  ToolKeys \cup {<<"Z">>, <<"a", "b">>}

\* Tool lists of at most n tools.
ToolLists(n) ==
  UNION {[1..k -> {RegisteredTool(key) : key \in ToolKeys}] : k \in 0..n}

\* Characters a path segment is made of.
PathAlphabet ==
  {"a", "_", "Z", "1", "-", "/", ",", " "}

PathStrings ==
  UNION {[1..k -> PathAlphabet] : k \in 0..MaxLen}

\* SelectiveToolMiddleware(error_behavior) on a server whose tools are
\* registered; no request has arrived.
InitServer ==
  /\ error_behavior \in ErrorBehavior
  /\ downstream \in ToolLists(MaxTools)
  /\ has_context = [r \in Requests |-> FALSE]
  /\ selected_tools = [r \in Requests |-> None]
  /\ pc = [r \in Requests |-> "idle"]
  /\ tools = [r \in Requests |-> <<>>]
  /\ result = [r \in Requests |-> Pending]
  /\ call = [r \in Requests |-> Pending]
  /\ url_path = [r \in Requests |-> <<>>]
  /\ scope_state = [r \in Requests |-> Unset]
  /\ response = [r \in Requests |-> Pending]

Init ==
  /\ InitServer
  /\ path_segment = <<>>
  /\ parsed = Pending

\* Fault variant of get_state: the selection is read from one place shared
\* by all requests (the first request's), not from the request's context.
get_state_Shared(r) ==
  selected_tools[CHOOSE q \in Requests : \A p \in Requests : q <= p]

\* context.fastmcp_context.get_state("selected_tools") of request r.
get_state(r) ==
  selected_tools[r]

\* A request arrives, with or without a FastMCP context.
Arrive(r, ctx) ==
  /\ pc[r] = "idle"
  /\ has_context' = [has_context EXCEPT ![r] = ctx]
  /\ pc' = [pc EXCEPT ![r] = "start"]
  /\ UNCHANGED <<error_behavior, downstream, selected_tools, tools, result,
                 path_segment, parsed, call, routing>>

\* context.fastmcp_context.set_state("selected_tools", names)
SetState(r, names) ==
  /\ pc[r] = "start"
  /\ has_context[r]
  /\ selected_tools' = [selected_tools EXCEPT ![r] = SetOf(names)]
  /\ UNCHANGED <<error_behavior, downstream, has_context, pc, tools, result,
                 path_segment, parsed, call, routing>>

\* on_list_tools up to its await: tools = await call_next(context)
CallNext(r) ==
  /\ pc[r] = "start"
  /\ tools' = [tools EXCEPT ![r] = downstream]
  /\ pc' = [pc EXCEPT ![r] = "awaiting"]
  /\ UNCHANGED <<error_behavior, downstream, has_context, selected_tools, result,
                 path_segment, parsed, call, routing>>

\* on_list_tools from its await to its return or raise.
OnListTools(r) ==
  /\ pc[r] = "awaiting"
  /\ result' = [result EXCEPT ![r] =
                  on_list_tools(error_behavior, has_context[r], get_state(r),
                                tools[r])]
  /\ pc' = [pc EXCEPT ![r] = "done"]
  /\ UNCHANGED <<error_behavior, downstream, has_context, selected_tools, tools,
                 path_segment, parsed, call, routing>>

Next ==
  \E r \in Solo :
    \/ \E ctx \in BOOLEAN : Arrive(r, ctx)
    \/ \E names \in SUBSET SelectionNames : SetState(r, names)
    \/ CallNext(r)
    \/ OnListTools(r)

Spec ==
  Init /\ [][Next]_vars

\* parse_tool_names on its own: any path segment, one call.
InitParse ==
  /\ error_behavior = IGNORE
  /\ downstream = <<>>
  /\ has_context = [r \in Requests |-> FALSE]
  /\ selected_tools = [r \in Requests |-> None]
  /\ pc = [r \in Requests |-> "idle"]
  /\ tools = [r \in Requests |-> <<>>]
  /\ result = [r \in Requests |-> Pending]
  /\ path_segment \in PathStrings
  /\ parsed = Pending
  /\ call = [r \in Requests |-> Pending]
  /\ url_path = [r \in Requests |-> <<>>]
  /\ scope_state = [r \in Requests |-> Unset]
  /\ response = [r \in Requests |-> Pending]

ParseToolNames ==
  /\ parsed = Pending
  /\ parsed' = parse_tool_names(path_segment)
  /\ UNCHANGED <<error_behavior, downstream, has_context, selected_tools, pc, tools,
                 result, path_segment, call, routing>>

NextParse ==
  ParseToolNames

SpecParse ==
  InitParse /\ [][NextParse]_vars

\* ------------------------------------------------------------------------
\* Vocabulary of the properties, stated without the operators above.
\* ------------------------------------------------------------------------

\* on_list_tools has returned or raised for request r.
Finished(r) ==
  pc[r] = "done"

\* Request r carries a selection: it has a context whose slot is set.
HasSelection(r) ==
  has_context[r] /\ selected_tools[r].kind = "set"

Selection(r) ==
  selected_tools[r].value

\* The names of the tools of a list.
Names(list) ==
  {list[i].key : i \in DOMAIN list}

\* The selected names that name no downstream tool.
Unavailable(r) ==
  Selection(r) \ Names(downstream)

\* The tools of list whose name is in names, in the order of list.
Picked(list, names) ==
  SelectSeq(list, LAMBDA t : t.key \in names)

\* listing enumerates the set names once each, in ascending string order.
IsAscendingListing(listing, names) ==
  /\ Len(listing) = Cardinality(names)
  /\ {listing[i] : i \in DOMAIN listing} = names
  /\ \A i, j \in DOMAIN listing : i < j => StrLess(listing[i], listing[j])

\* The one listing of names in ascending string order.
Ascending(names) ==
  CHOOSE listing \in [1..Cardinality(names) -> names] :
    IsAscendingListing(listing, names)

\* The names of a listing written out with ", " between them.
RECURSIVE Written(_)
Written(listing) ==
  IF Len(listing) = 0 THEN <<>>
  ELSE IF Len(listing) = 1 THEN listing[1]
  ELSE listing[1] \o <<",", " ">> \o Written(Tail(listing))

\* ------------------------------------------------------------------------
\* Properties of on_list_tools.
\* ------------------------------------------------------------------------

\* C1: with no selection (no context, or the slot unset) on_list_tools
\* returns exactly the downstream list, whatever the error behavior.
C1_NoSelectionReturnsAll ==
  \A r \in Requests :
    (Finished(r) /\ ~HasSelection(r)) =>
      /\ result[r].kind = "list"
      /\ result[r].tools = downstream

C1_Witness ==
  \E r \in Requests :
    /\ Finished(r)
    /\ ~HasSelection(r)
    /\ has_context[r]
    /\ error_behavior = STRICT
    /\ Len(downstream) = MaxTools

\* C2: with a selection all of whose names are available, on_list_tools
\* returns exactly the downstream tools named in the selection, under every
\* error behavior: no error, no placeholder, no fallback.
C2_ValidSelectionFilters ==
  \A r \in Requests :
    (Finished(r) /\ HasSelection(r) /\ Unavailable(r) = {}) =>
      /\ result[r].kind = "list"
      /\ result[r].tools = Picked(downstream, Selection(r))

C2_Witness ==
  \E r \in Requests :
    /\ Finished(r)
    /\ HasSelection(r)
    /\ Unavailable(r) = {}
    /\ error_behavior = WARN
    /\ Selection(r) # {}
    /\ Names(downstream) \ Selection(r) # {}

\* C3: under IGNORE with some unavailable name selected, on_list_tools
\* returns exactly the downstream tools named in selection \cap available.
C3_IgnoreDropsInvalid ==
  \A r \in Requests :
    (Finished(r) /\ HasSelection(r) /\ Unavailable(r) # {}
       /\ error_behavior = IGNORE) =>
      /\ result[r].kind = "list"
      /\ result[r].tools =
           Picked(downstream, Selection(r) \cap Names(downstream))

C3_Witness ==
  \E r \in Requests :
    /\ Finished(r)
    /\ HasSelection(r)
    /\ Unavailable(r) # {}
    /\ error_behavior = IGNORE
    /\ Selection(r) \cap Names(downstream) # {}
    /\ Names(downstream) \ Selection(r) # {}

\* C4: under STRICT with some unavailable name selected, on_list_tools
\* returns no list: it raises NotFoundError, whose message lists the
\* unavailable names in ascending order and then all available names in
\* ascending order; also when every selected name is unavailable.
C4_StrictRaisesNotFound ==
  \A r \in Requests :
    (Finished(r) /\ HasSelection(r) /\ Unavailable(r) # {}
       /\ error_behavior = STRICT) =>
      /\ result[r].kind = "NotFoundError"
      /\ result[r].message =
           StrictPrefix \o Written(Ascending(Unavailable(r)))
             \o StrictMiddle \o Written(Ascending(Names(downstream)))

C4_Witness ==
  \E r \in Requests :
    /\ Finished(r)
    /\ HasSelection(r)
    /\ error_behavior = STRICT
    /\ Cardinality(Unavailable(r)) >= 2
    /\ Selection(r) \cap Names(downstream) = {}
    /\ Cardinality(Names(downstream)) >= 2

\* C5: under WARN with some unavailable name selected, on_list_tools
\* returns the downstream tools named in selection \cap available followed
\* by one placeholder tool, whose description lists the unavailable names in
\* ascending order; the placeholder is not in the downstream list, which is
\* left as it was.
C5_WarnAddsOnePlaceholder ==
  \A r \in Requests :
    (Finished(r) /\ HasSelection(r) /\ Unavailable(r) # {}
       /\ error_behavior = WARN) =>
      LET kept == Picked(downstream, Selection(r) \cap Names(downstream))
      IN  /\ result[r].kind = "list"
          /\ Len(result[r].tools) = Len(kept) + 1
          /\ SubSeq(result[r].tools, 1, Len(kept)) = kept
          /\ LET notice == result[r].tools[Len(kept) + 1]
             IN  /\ notice.key = NoticeName
                 /\ notice.description =
                      NoticePrefix \o Written(Ascending(Unavailable(r)))
                        \o NoticeSuffix
                 /\ \A i \in DOMAIN downstream : downstream[i] # notice
          /\ tools[r] = downstream

C5_Witness ==
  \E r \in Requests :
    /\ Finished(r)
    /\ HasSelection(r)
    /\ error_behavior = WARN
    /\ Cardinality(Unavailable(r)) >= 2
    /\ Selection(r) \cap Names(downstream) # {}
    /\ Names(downstream) \ Selection(r) # {}

\* C6: under FALLBACK with some unavailable name selected, on_list_tools
\* returns the whole downstream list unchanged, unselected tools included.
C6_FallbackReturnsAll ==
  \A r \in Requests :
    (Finished(r) /\ HasSelection(r) /\ Unavailable(r) # {}
       /\ error_behavior = FALLBACK) =>
      /\ result[r].kind = "list"
      /\ result[r].tools = downstream

C6_Witness ==
  \E r \in Requests :
    /\ Finished(r)
    /\ HasSelection(r)
    /\ Unavailable(r) # {}
    /\ error_behavior = FALLBACK
    /\ Selection(r) \cap Names(downstream) # {}
    /\ Names(downstream) \ Selection(r) # {}

\* C7: with a non-empty downstream list, a present but empty selection
\* yields the empty list and an absent selection yields every tool, under
\* every error behavior.
C7_EmptyIsNotAbsent ==
  \A r \in Requests :
    (Finished(r) /\ downstream # <<>>) =>
      /\ (HasSelection(r) /\ Selection(r) = {}) =>
           (result[r].kind = "list" /\ result[r].tools = <<>>)
      /\ (has_context[r] /\ selected_tools[r] = None) =>
           (result[r].kind = "list" /\ result[r].tools = downstream)

C7_Witness ==
  \E r \in Requests :
    /\ Finished(r)
    /\ downstream # <<>>
    /\ HasSelection(r)
    /\ Selection(r) = {}
    /\ error_behavior = FALLBACK

\* C8: on_list_tools raises only under STRICT with an unavailable name
\* selected; under IGNORE, WARN and FALLBACK it always returns a list.
C8_OnlyStrictRaises ==
  \A r \in Requests :
    Finished(r) =>
      /\ result[r].kind \in {"list", "NotFoundError"}
      /\ result[r].kind = "NotFoundError" =>
           (error_behavior = STRICT /\ HasSelection(r) /\ Unavailable(r) # {})
      /\ error_behavior \in {IGNORE, WARN, FALLBACK} => result[r].kind = "list"

C8_Witness ==
  \E r \in Requests :
    /\ Finished(r)
    /\ error_behavior = WARN
    /\ HasSelection(r)
    /\ Selection(r) # {}
    /\ Selection(r) \cap Names(downstream) = {}
    /\ downstream # <<>>

\* ------------------------------------------------------------------------
\* Properties of parse_tool_names.
\* ------------------------------------------------------------------------

IsSlashOrComma(c) ==
  c \in {"/", ","}

IsBlank(c) ==
  c \in {" ", "\t", "\n", "\r", "\f"}

\* The names written in path: each maximal stretch free of "/" and ",",
\* without the blanks at its two ends, when something is left of it.
NamesWritten(path) ==
  LET n == Len(path)
      NoSeparator(a, b) == \A k \in a..b : ~IsSlashOrComma(path[k])
      IsName(a, b) ==
        /\ a <= b
        /\ NoSeparator(a, b)
        /\ ~IsBlank(path[a])
        /\ ~IsBlank(path[b])
        /\ \A k \in 1..(a - 1) : NoSeparator(k, a - 1) => IsBlank(path[k])
        /\ \A k \in (b + 1)..n : NoSeparator(b + 1, k) => IsBlank(path[k])
  IN  {SubSeq(path, ab[1], ab[2]) :
         ab \in {cd \in (1..n) \X (1..n) : IsName(cd[1], cd[2])}}

\* name is a letter or "_" followed by letters, digits and "_".
WellFormed(name) ==
  LET IsLetter(c) == \E i \in (34..59) \cup (66..91) : AsciiPrintable[i] = c
      IsDigit(c)  == \E i \in 17..26 : AsciiPrintable[i] = c
  IN  /\ Len(name) >= 1
      /\ IsLetter(name[1]) \/ name[1] = "_"
      /\ \A i \in 2..Len(name) :
           IsLetter(name[i]) \/ IsDigit(name[i]) \/ name[i] = "_"

\* path with the separator at i replaced by the other separator.
OtherSeparator(path, i) ==
  [path EXCEPT ![i] = IF path[i] = "/" THEN "," ELSE "/"]

\* path cut at the separator at i, with the two parts exchanged.
PartsExchanged(path, i) ==
  SubSeq(path, i + 1, Len(path)) \o <<path[i]>> \o SubSeq(path, 1, i - 1)

\* C9: parse_tool_names returns None, and raises nothing, for the empty
\* string, for a string of blanks, and for any string in which no name is
\* left after splitting on "/" and "," and trimming.
C9_NothingWrittenIsNone ==
  (parsed # Pending /\ NamesWritten(path_segment) = {}) => parsed = None

C9_Witness ==
  /\ parsed # Pending
  /\ NamesWritten(path_segment) = {}
  /\ \E i \in DOMAIN path_segment : IsSlashOrComma(path_segment[i])
  /\ \E i \in DOMAIN path_segment : IsBlank(path_segment[i])

\* C10: when every name written in the input is well formed,
\* parse_tool_names returns exactly the set of the names written: a run of
\* "/" and "," separates once, blanks around a name are dropped, a repeated
\* name counts once; exchanging the parts around a separator, or replacing
\* a separator by the other one, gives the same result.
C10_ReturnsNamesWritten ==
  (/\ parsed # Pending
   /\ NamesWritten(path_segment) # {}
   /\ \A name \in NamesWritten(path_segment) : WellFormed(name)) =>
    /\ parsed = [kind |-> "set", value |-> NamesWritten(path_segment)]
    /\ \A i \in DOMAIN path_segment :
         IsSlashOrComma(path_segment[i]) =>
           /\ parse_tool_names(OtherSeparator(path_segment, i)) = parsed
           /\ parse_tool_names(PartsExchanged(path_segment, i)) = parsed

C10_Witness ==
  /\ parsed.kind = "set"
  /\ Cardinality(parsed.value) = 2
  /\ \E i \in DOMAIN path_segment :
       /\ i < Len(path_segment)
       /\ path_segment[i] = ","
       /\ path_segment[i + 1] = "/"

\* The places <<first, last>> of the names written in path (see
\* NamesWritten).
NamePlaces(path) ==
  LET n == Len(path)
      NoSeparator(a, b) == \A k \in a..b : ~IsSlashOrComma(path[k])
      IsName(a, b) ==
        /\ a <= b
        /\ NoSeparator(a, b)
        /\ ~IsBlank(path[a])
        /\ ~IsBlank(path[b])
        /\ \A k \in 1..(a - 1) : NoSeparator(k, a - 1) => IsBlank(path[k])
        /\ \A k \in (b + 1)..n : NoSeparator(b + 1, k) => IsBlank(path[k])
  IN  {cd \in (1..n) \X (1..n) : IsName(cd[1], cd[2])}

\* The places of the names written in path that are not well formed.
MalformedPlaces(path) ==
  {ab \in NamePlaces(path) : ~WellFormed(SubSeq(path, ab[1], ab[2]))}

\* C11: when some name written in the input is not well formed,
\* parse_tool_names returns no set: it raises ValueError carrying the first
\* such name in input order, also when other names are well formed.
C11_FirstMalformedRaises ==
  (parsed # Pending /\ MalformedPlaces(path_segment) # {}) =>
    LET first == CHOOSE ab \in MalformedPlaces(path_segment) :
                   \A cd \in MalformedPlaces(path_segment) : ab[1] <= cd[1]
        name  == SubSeq(path_segment, first[1], first[2])
    IN  /\ parsed.kind = "ValueError"
        /\ parsed.name = name
        /\ parsed.message = InvalidNamePrefix \o name \o InvalidNameSuffix

C11_Witness ==
  /\ parsed # Pending
  /\ \E ab \in MalformedPlaces(path_segment) :
       /\ SubSeq(path_segment, ab[1], ab[2]) = <<"1">>
       /\ \E cd \in NamePlaces(path_segment) :
            /\ cd[1] < ab[1]
            /\ WellFormed(SubSeq(path_segment, cd[1], cd[2]))
  /\ parsed.kind = "ValueError"

\* ------------------------------------------------------------------------
\* Order and names of the returned list.
\* ------------------------------------------------------------------------

\* t is a notice tool made by _create_error_notice_tool (a registered tool
\* has no such description).
IsPlaceholder(t) ==
  t.key = NoticeName /\ t.description # <<>>

\* a can be got from b by leaving elements out.
IsSubsequence(a, b) ==
  \E f \in [1..Len(a) -> 1..Len(b)] :
    /\ \A i, j \in 1..Len(a) : i < j => f[i] < f[j]
    /\ \A i \in 1..Len(a) : a[i] = b[f[i]]

\* C17: a list returned by on_list_tools holds, apart from the placeholder,
\* a subsequence of the downstream list; a placeholder is its last element,
\* and under WARN with an unavailable name selected there is one.
C17_ResultIsSubsequence ==
  \A r \in Requests :
    (Finished(r) /\ result[r].kind = "list") =>
      LET out == result[r].tools
      IN  /\ IsSubsequence(SelectSeq(out, LAMBDA t : ~IsPlaceholder(t)), downstream)
          /\ \A i \in DOMAIN out : IsPlaceholder(out[i]) => i = Len(out)
          /\ (error_behavior = WARN /\ HasSelection(r) /\ Unavailable(r) # {}) =>
               (out # <<>> /\ IsPlaceholder(out[Len(out)]))

C17_Witness ==
  \E r \in Requests :
    /\ Finished(r)
    /\ result[r].kind = "list"
    /\ error_behavior = WARN
    /\ HasSelection(r)
    /\ Unavailable(r) # {}
    /\ Len(result[r].tools) >= 3
    /\ Len(downstream) > Len(result[r].tools) - 1

\* The tools of list have pairwise distinct names.
DistinctNames(list) ==
  \A i, j \in DOMAIN list : list[i].key = list[j].key => i = j

\* C18: from a downstream list with pairwise distinct names on_list_tools
\* returns a list with pairwise distinct names; under WARN with an
\* unavailable name selected exactly one tool of the result is named
\* "_selection_error_notice", also when a registered tool of that name is
\* selected.
C18_DistinctNamesKept ==
  \A r \in Requests :
    (Finished(r) /\ result[r].kind = "list" /\ DistinctNames(downstream)) =>
      /\ DistinctNames(result[r].tools)
      /\ (error_behavior = WARN /\ HasSelection(r) /\ Unavailable(r) # {}) =>
           Cardinality({i \in DOMAIN result[r].tools :
                          result[r].tools[i].key = NoticeName}) = 1

\* ------------------------------------------------------------------------
\* tools/call beside tools/list.
\* ------------------------------------------------------------------------

\* The tool named name ran.
Called(name) ==
  [kind |-> "called", name |-> name]

\* The server found no tool named name.
UnknownTool(name) ==
  [kind |-> "unknown tool", name |-> name]

\* The server's tools/call: the tool is looked up by name among its tools.
call_tool(name, registry) ==
  IF name \in AvailableTools(registry) THEN Called(name) ELSE UnknownTool(name)

\* Fault variant of on_call_tool: a tool outside the selection is refused.
on_call_tool_Blocks(ctx, slot, name, registry) ==
  IF ctx /\ slot # None /\ name \notin slot.value THEN UnknownTool(name)
  ELSE call_tool(name, registry)

\* tools/call through SelectiveToolMiddleware, which defines no
\* on_call_tool of its own: the call goes on to the next handler.
on_call_tool(ctx, slot, name, registry) ==
  call_tool(name, registry)

\* A client calls the tool named name within request r.
CallTool(r, name) ==
  /\ pc[r] \in {"start", "done"}
  /\ call' = [call EXCEPT ![r] =
                on_call_tool(has_context[r], get_state(r), name, downstream)]
  /\ UNCHANGED <<error_behavior, downstream, has_context, selected_tools, pc, tools,
                 result, path_segment, parsed, routing>>

NextCall ==
  \E r \in Solo :
    \/ \E ctx \in BOOLEAN : Arrive(r, ctx)
    \/ \E names \in SUBSET SelectionNames : SetState(r, names)
    \/ CallNext(r)
    \/ OnListTools(r)
    \/ \E name \in SelectionNames : CallTool(r, name)

\* One request that lists and calls tools, in any order.
SpecCall ==
  Init /\ [][NextCall]_vars

ConcKeys ==
  {<<"a">>, <<"b">>}

\* Names the selections of those requests may hold.
ConcNames ==
  {<<"a">>, <<"Z">>}

\* @mcp.tool: a tool is added to the server's tools.
RegisterTool(key) ==
  /\ key \notin AvailableTools(downstream)
  /\ Len(downstream) < MaxTools
  /\ downstream' = Append(downstream, RegisteredTool(key))
  /\ UNCHANGED <<error_behavior, has_context, selected_tools, pc, tools, result,
                 path_segment, parsed, call, routing>>

\* One middleware instance on a server without tools yet.
InitConc ==
  /\ error_behavior \in ErrorBehavior
  /\ downstream = <<>>
  /\ has_context = [r \in Requests |-> FALSE]
  /\ selected_tools = [r \in Requests |-> None]
  /\ pc = [r \in Requests |-> "idle"]
  /\ tools = [r \in Requests |-> <<>>]
  /\ result = [r \in Requests |-> Pending]
  /\ path_segment = <<>>
  /\ parsed = Pending
  /\ call = [r \in Requests |-> Pending]
  /\ url_path = [r \in Requests |-> <<>>]
  /\ scope_state = [r \in Requests |-> Unset]
  /\ response = [r \in Requests |-> Pending]

NextConc ==
  \/ \E r \in Requests :
       \/ \E ctx \in BOOLEAN : Arrive(r, ctx)
       \/ \E names \in SUBSET ConcNames : SetState(r, names)
       \/ CallNext(r)
       \/ OnListTools(r)
  \/ \E key \in ConcKeys : RegisterTool(key)

\* Every interleaving of the requests' steps and of tool registration.
SpecConc ==
  InitConc /\ [][NextConc]_vars

\* What on_list_tools gives a request on its own, from the behavior, the
\* request's context and selection, and the list it received.
Alone(behavior, ctx, slot, list) ==
  IF ~ctx \/ slot.kind # "set" THEN [kind |-> "list", tools |-> list]
  ELSE LET missing == slot.value \ Names(list)
           kept    == Picked(list, slot.value \cap Names(list))
       IN  IF missing = {} \/ behavior = IGNORE
           THEN [kind |-> "list", tools |-> kept]
           ELSE IF behavior = STRICT
           THEN [kind |-> "NotFoundError",
                 message |-> StrictPrefix \o Written(Ascending(missing))
                               \o StrictMiddle \o Written(Ascending(Names(list)))]
           ELSE IF behavior = WARN
           THEN [kind |-> "list",
                 tools |-> Append(kept,
                   [key |-> NoticeName,
                    description |-> NoticePrefix \o Written(Ascending(missing))
                                      \o NoticeSuffix])]
           ELSE [kind |-> "list", tools |-> list]

\* C15: in every interleaving of requests with different selections on one
\* middleware instance, a request's result is the result it gets alone: it
\* depends on its own selection, the list it received and the behavior; the
\* steps of on_list_tools change neither error_behavior, nor any stored
\* selection, nor the downstream list, nor anything of another request.
C15_RequestsAreIndependent ==
  [][\A r \in Requests :
       /\ (pc[r] = "start" /\ pc'[r] = "awaiting") =>
            /\ tools'[r] = downstream
            /\ \A q \in Requests \ {r} : tools'[q] = tools[q]
            /\ UNCHANGED <<error_behavior, selected_tools, downstream, result>>
       /\ (pc[r] = "awaiting" /\ pc'[r] = "done") =>
            /\ result'[r] =
                 Alone(error_behavior, has_context[r], selected_tools[r], tools[r])
            /\ \A q \in Requests \ {r} : result'[q] = result[q]
            /\ UNCHANGED <<error_behavior, selected_tools, downstream, tools>>
    ]_vars

C15_Witness ==
  \E r, q \in Requests :
    /\ r # q
    /\ Finished(r)
    /\ Finished(q)
    /\ HasSelection(r)
    /\ HasSelection(q)
    /\ Selection(r) # Selection(q)
    /\ tools[r] # tools[q]
    /\ result[r] # result[q]
    /\ result[q].kind = "list"
    /\ result[q].tools # tools[q]

\* ------------------------------------------------------------------------
\* The routing layer: setup_selective_routes and the example application.
\* ------------------------------------------------------------------------

\* A match of a path pattern, with what it captured as "tools".
Match(captured) ==
  [kind |-> "match", tools |-> captured]

\* "/mcp"
McpPath ==
  <<"/", "m", "c", "p">>

\* url ends with "/mcp".
EndsWithMcp(url) ==
  Len(url) >= Len(McpPath)
    /\ SubSeq(url, Len(url) - Len(McpPath) + 1, Len(url)) = McpPath

\* The route "/{tools:path}/mcp": the match giving request.path_params for
\* a path the route matches, Unset for a path it does not match.
SelectiveRouteTools(url) ==
  IF Len(url) > Len(McpPath) /\ url[1] = "/" /\ EndsWithMcp(url)
  THEN Match(SubSeq(url, 2, Len(url) - Len(McpPath)))
  ELSE Unset

\* self.path_regex.match(path) for ^/(?P<tools>[^/]+)/mcp$: the match with
\* its group "tools", Unset when there is no match.  "$" also matches just before a
\* newline that ends the path.
RewriterMatch(url) ==
  LET body == IF url # <<>> /\ url[Len(url)] = "\n"
              THEN SubSeq(url, 1, Len(url) - 1) ELSE url
      Group(u) == SubSeq(u, 2, Len(u) - Len(McpPath))
      Matches(u) ==
        /\ Len(u) > Len(McpPath) + 1
        /\ u[1] = "/"
        /\ EndsWithMcp(u)
        /\ \A i \in 1..Len(Group(u)) : Group(u)[i] # "/"
  IN  IF Matches(url) THEN Match(Group(url))
      ELSE IF Matches(body) THEN Match(Group(body))
      ELSE Unset

\* JSONResponse({"error": str(e)}, status_code=400)
JSONError(message) ==
  [kind |-> "response", status |-> 400, error |-> message]

\* JSONResponse({"detail": ...}, status_code=501)
JSONNotImplemented ==
  [kind |-> "response", status |-> 501, error |-> <<>>]

\* An exception left the routing layer uncaught.
Unhandled(exception, message) ==
  [kind |-> "unhandled", exception |-> exception, message |-> message]

\* An HTTP request for url arrives; ctx tells whether get_context() will
\* find a FastMCP context for it.
ArriveHttp(r, url, ctx) ==
  /\ pc[r] = "idle"
  /\ url_path' = [url_path EXCEPT ![r] = url]
  /\ has_context' = [has_context EXCEPT ![r] = ctx]
  /\ pc' = [pc EXCEPT ![r] = "http"]
  /\ UNCHANGED <<error_behavior, downstream, selected_tools, tools, result,
                 path_segment, parsed, call, scope_state, response>>

\* setup_selective_routes.handle_selective_tools
handle_selective_tools(r) ==
  /\ pc[r] = "http"
  /\ SelectiveRouteTools(url_path[r]) # Unset
  /\ LET tools_param == SelectiveRouteTools(url_path[r]).tools
         selected    == parse_tool_names(tools_param)
     IN  /\ path_segment' = tools_param
         /\ parsed' = selected
         /\ IF selected.kind = "ValueError"
            THEN /\ response' = [response EXCEPT ![r] = JSONError(selected.message)]
                 /\ UNCHANGED selected_tools
            ELSE /\ response' = [response EXCEPT ![r] = JSONNotImplemented]
                 /\ IF has_context[r] /\ selected.kind = "set" /\ selected.value # {}
                    THEN selected_tools' = [selected_tools EXCEPT ![r] = selected]
                    ELSE UNCHANGED selected_tools
  /\ pc' = [pc EXCEPT ![r] = "responded"]
  /\ UNCHANGED <<error_behavior, downstream, has_context, tools, result, call,
                 url_path, scope_state>>

\* URLRewriterMiddleware.__call__ up to "await self.app(...)"
URLRewriterMiddleware(r) ==
  /\ pc[r] = "http"
  /\ LET match       == RewriterMatch(url_path[r])
         tools_param == match.tools
         selected    == parse_tool_names(tools_param)
     IN  IF match = Unset
         THEN /\ pc' = [pc EXCEPT ![r] = "rewritten"]
              /\ UNCHANGED <<path_segment, parsed, scope_state, url_path, response>>
         ELSE /\ path_segment' = tools_param
              /\ parsed' = selected
              /\ IF selected.kind = "ValueError"
                 THEN /\ response' = [response EXCEPT ![r] =
                                        Unhandled("ValueError", selected.message)]
                      /\ pc' = [pc EXCEPT ![r] = "crashed"]
                      /\ UNCHANGED <<scope_state, url_path>>
                 ELSE /\ scope_state' = [scope_state EXCEPT ![r] = selected]
                      /\ url_path' = [url_path EXCEPT ![r] = McpPath]
                      /\ pc' = [pc EXCEPT ![r] = "rewritten"]
                      /\ UNCHANGED response
  /\ UNCHANGED <<error_behavior, downstream, has_context, selected_tools, tools,
                 result, call>>

\* ContextPopulaterMiddleware.__call__ up to "await self.app(...)"
ContextPopulaterMiddleware(r) ==
  /\ pc[r] = "rewritten"
  /\ LET selected == IF scope_state[r] = Unset THEN None ELSE scope_state[r]
     IN  IF selected.kind = "set" /\ selected.value # {}
         THEN IF has_context[r]
              THEN /\ selected_tools' = [selected_tools EXCEPT ![r] = selected]
                   /\ pc' = [pc EXCEPT ![r] = "start"]
                   /\ UNCHANGED response
              ELSE /\ response' = [response EXCEPT ![r] =
                                     Unhandled("RuntimeError", <<>>)]
                   /\ pc' = [pc EXCEPT ![r] = "crashed"]
                   /\ UNCHANGED selected_tools
         ELSE /\ pc' = [pc EXCEPT ![r] = "start"]
              /\ UNCHANGED <<selected_tools, response>>
  /\ UNCHANGED <<error_behavior, downstream, has_context, tools, result,
                 path_segment, parsed, call, url_path, scope_state>>

\* Request paths: "/mcp" and "/<tools>/mcp" for every path segment.
UrlPaths ==
  {McpPath} \cup {<<"/">> \o segment \o McpPath : segment \in PathStrings}

\* A server with the default error behavior and two tools.
InitRoute ==
  /\ error_behavior = IGNORE
  /\ downstream = <<RegisteredTool(<<"a">>), RegisteredTool(<<"b">>)>>
  /\ has_context = [r \in Requests |-> FALSE]
  /\ selected_tools = [r \in Requests |-> None]
  /\ pc = [r \in Requests |-> "idle"]
  /\ tools = [r \in Requests |-> <<>>]
  /\ result = [r \in Requests |-> Pending]
  /\ path_segment = <<>>
  /\ parsed = Pending
  /\ call = [r \in Requests |-> Pending]
  /\ url_path = [r \in Requests |-> <<>>]
  /\ scope_state = [r \in Requests |-> Unset]
  /\ response = [r \in Requests |-> Pending]

NextRoute ==
  \E r \in Solo :
    \/ pc[r] = "idle" /\ \E url \in UrlPaths, ctx \in BOOLEAN : ArriveHttp(r, url, ctx)
    \/ handle_selective_tools(r)
    \/ URLRewriterMiddleware(r)
    \/ ContextPopulaterMiddleware(r)
    \/ CallNext(r)
    \/ OnListTools(r)

\* One HTTP request, taken by the selective route or by the two ASGI
\* middlewares, then listed.
SpecRoute ==
  InitRoute /\ [][NextRoute]_vars

\* ------------------------------------------------------------------------
\* Properties of the routing layer.
\* ------------------------------------------------------------------------

\* What stands between the leading "/" and the closing "/mcp" of url.
ToolsPart(url) ==
  SubSeq(url, 2, Len(url) - 4)

\* The routing layer has answered request r, or an exception has left it.
RoutingEnded(r) ==
  pc[r] \in {"responded", "crashed"}

\* The routing layer read tool names out of the path of request r, one of
\* them malformed.
MalformedRequest(r) ==
  /\ RoutingEnded(r)
  /\ Len(url_path[r]) > 4
  /\ MalformedPlaces(ToolsPart(url_path[r])) # {}

\* C14: a request path with a malformed tool name is answered at the
\* routing boundary with a 4xx response carrying the parser's error, the
\* "selected_tools" state is not written for it, and the parser's error
\* never leaves the routing layer as an unhandled exception.
C14_MalformedPathIsClientError ==
  \A r \in Requests :
    MalformedRequest(r) =>
      /\ response[r].kind = "response"
      /\ response[r].status \in 400..499
      /\ LET places == MalformedPlaces(ToolsPart(url_path[r]))
             first  == CHOOSE ab \in places : \A cd \in places : ab[1] <= cd[1]
         IN  response[r].error =
               InvalidNamePrefix
                 \o SubSeq(ToolsPart(url_path[r]), first[1], first[2])
                 \o InvalidNameSuffix
      /\ selected_tools[r] = None

\* s holds no blank, no "/" and no ",".
HasNoBlankOrSeparator(s) ==
  \A i \in DOMAIN s : ~IsBlank(s[i]) /\ ~IsSlashOrComma(s[i])

\* v is a set of names as parse_tool_names may return one.
IsProperSelection(v) ==
  /\ v.kind = "set"
  /\ v.value # {}
  /\ \A name \in v.value : WellFormed(name) /\ HasNoBlankOrSeparator(name)

\* C16: parse_tool_names never returns the empty set: a call ends in None,
\* in ValueError, or in a non-empty set of well-formed names without blank,
\* slash or comma.  So the routing layer's truthiness test stores a
\* selection exactly when the parser returned a set, and no empty selection
\* reaches the filter through the parser.
C16_ParserNeverReturnsEmptySet ==
  /\ parsed # Pending =>
       /\ parsed.kind \in {"None", "ValueError", "set"}
       /\ parsed.kind = "set" => IsProperSelection(parsed)
  /\ \A r \in Requests :
       /\ selected_tools[r] # None => IsProperSelection(selected_tools[r])
       /\ (pc[r] = "responded" /\ has_context[r]) =>
            selected_tools[r] = (IF parsed.kind = "set" THEN parsed ELSE None)
       /\ scope_state[r] # Unset => scope_state[r] = parsed
       /\ pc[r] \in {"start", "awaiting", "done"} =>
            selected_tools[r] =
              (IF scope_state[r].kind = "set" THEN scope_state[r] ELSE None)
       /\ (pc[r] = "crashed" /\ response[r].exception = "RuntimeError") =>
            (~has_context[r] /\ scope_state[r].kind = "set")

C16_Witness ==
  \E r \in Requests :
    /\ Finished(r)
    /\ selected_tools[r] # None
    /\ Cardinality(selected_tools[r].value) = 2
    /\ result[r].kind = "list"
    /\ Len(result[r].tools) = 1
    /\ parsed = selected_tools[r]

\* ------------------------------------------------------------------------
\* The example application (example.py, create_app).
\* ------------------------------------------------------------------------

Echo ==
  <<"e", "c", "h", "o">>

Add ==
  <<"a", "d", "d">>

Multiply ==
  <<"m", "u", "l", "t", "i", "p", "l", "y">>

\* Paths requested of the example application: "/mcp", "/echo/mcp",
\* "/add,multiply/mcp", "/add/mcp", "/echo,nope/mcp", "/ echo,/mcp",
\* "/1x/mcp".
ExamplePaths ==
  { McpPath,
    <<"/">> \o Echo \o McpPath,
    <<"/">> \o Add \o <<",">> \o Multiply \o McpPath,
    <<"/">> \o Add \o McpPath,
    <<"/">> \o Echo \o <<",", "n", "o", "p", "e">> \o McpPath,
    <<"/", " ">> \o Echo \o <<",">> \o McpPath,
    <<"/", "1", "x">> \o McpPath }

\* Names a client of the example application calls.
ExampleCalls ==
  {Echo, Add, Multiply, <<"n", "o", "p", "e">>}

\* create_app(): the tools echo, add and multiply behind
\* SelectiveToolMiddleware(error_behavior=ErrorBehavior.IGNORE).
InitExample ==
  /\ error_behavior = IGNORE
  /\ downstream = <<RegisteredTool(Echo), RegisteredTool(Add), RegisteredTool(Multiply)>>
  /\ has_context = [r \in Requests |-> FALSE]
  /\ selected_tools = [r \in Requests |-> None]
  /\ pc = [r \in Requests |-> "idle"]
  /\ tools = [r \in Requests |-> <<>>]
  /\ result = [r \in Requests |-> Pending]
  /\ path_segment = <<>>
  /\ parsed = Pending
  /\ call = [r \in Requests |-> Pending]
  /\ url_path = [r \in Requests |-> <<>>]
  /\ scope_state = [r \in Requests |-> Unset]
  /\ response = [r \in Requests |-> Pending]

NextExample ==
  \E r \in Solo :
    \/ pc[r] = "idle" /\ \E url \in ExamplePaths, ctx \in BOOLEAN : ArriveHttp(r, url, ctx)
    \/ URLRewriterMiddleware(r)
    \/ ContextPopulaterMiddleware(r)
    \/ CallNext(r)
    \/ OnListTools(r)
    \/ \E name \in ExampleCalls : CallTool(r, name)

\* One request to the example application: rewritten, given its
\* selection, then listing and calling tools.
SpecExample ==
  InitExample /\ [][NextExample]_vars

\* C13: in the example application, on a path that selects tools a call of
\* a selected tool succeeds and a call of a registered tool outside the
\* selection is refused as a client error (no tool of that name); on the
\* plain "/mcp" path every registered tool can be called.
C13_UnselectedCallIsRefused ==
  \A r \in Requests :
    (call[r] # Pending /\ call[r].name \in Names(downstream)) =>
      /\ scope_state[r] = Unset => call[r].kind = "called"
      /\ (scope_state[r].kind = "set" /\ call[r].name \in scope_state[r].value) =>
           call[r].kind = "called"
      /\ (scope_state[r].kind = "set" /\ call[r].name \notin scope_state[r].value) =>
           call[r].kind = "unknown tool"

====
